---- MODULE Spec2Model ----
(***************************************************************************)
(* The /dexsearch command of config/commands.js as a state machine: one    *)
(* query is split, classified token by token into the `searches` maps and  *)
(* the structural flags, the Pokedex is scanned into the working set `dex`,*)
(* the category filters reduce it, and the reply is assembled.             *)
(* Strings are TLA+ strings; the JavaScript string functions the handler   *)
(* uses are written out over them character by character.                  *)
(***************************************************************************)
EXTENDS Integers, Sequences, FiniteSets, TLC

VARIABLES
    target,        \* the raw argument of the command, then the current token
    broadcasting,  \* this.broadcasting
    Pokedex,       \* Tools.data.Pokedex joined with the learnsets: id -> template
    targets,       \* target.split(',')
    i,             \* index of the token the loop is at (1-based)
    searches,      \* category -> (value -> polarity)
    moveKeys,      \* the keys of searches['moves'] in the order they were inserted
    showAll,
    megaSearch,    \* "null", "true" or "false"
    feSearch,      \* "null", "true" or "false"
    dex,           \* the working set: the ids still in `dex`
    results,       \* the list of species names after the forme filter
    reply,         \* what the handler sent: [kind, text]
    pc,            \* where the handler is
    prevoTemp,     \* the link the prevolution walk is at (an id)
    walkMove,      \* the move id the walk looks for
    walkStart,     \* the id the walk started from
    walkSteps      \* how often the walk stepped to a prevolution

vars == <<target, broadcasting, Pokedex, targets, i, searches, moveKeys, showAll, megaSearch,
          feSearch, dex, results, reply, pc, prevoTemp, walkMove, walkStart, walkSteps>>

queryVars == <<target, broadcasting, targets, i, searches, moveKeys, showAll, megaSearch,
               feSearch, dex, results, reply>>

walkVars == <<prevoTemp, walkMove, walkStart, walkSteps>>

-----------------------------------------------------------------------------
(* Bounds of the model *)

\* the longest token list a query of the general specifications holds
MaxTargets == 3
\* the longest token list of the specification that fills the move cap
MaxMoveTargets == 5
\* how far the shuffle of the sampling branch may rotate the list
MaxRotate == 1

-----------------------------------------------------------------------------
(* JavaScript strings *)
(* The string functions are TLA+ functions on STRING, evaluated on demand.   *)

CharAt(s, n) == SubSeq(s, n, n)

UpperChars == "ABCDEFGHIJKLMNOPQRSTUVWXYZ"
LowerChars == "abcdefghijklmnopqrstuvwxyz"
DigitChars == "0123456789"

\* the ASCII characters of the names and tokens, in the order of their codes
AsciiChars ==
    " !&'()+,-.0123456789:;<=>ABCDEFGHIJKLMNOPQRSTUVWXYZ_abcdefghijklmnopqrstuvwxyz"

\* tables of the characters: the place in the code order, the digit value, the case
CharCode == [c \in {CharAt(AsciiChars, n) : n \in 1..Len(AsciiChars)} |->
                CHOOSE n \in 1..Len(AsciiChars) : CharAt(AsciiChars, n) = c]
DigitValue == [c \in {CharAt(DigitChars, n) : n \in 1..Len(DigitChars)} |->
                (CHOOSE n \in 1..Len(DigitChars) : CharAt(DigitChars, n) = c) - 1]
LowerOfUpper == [c \in {CharAt(UpperChars, n) : n \in 1..Len(UpperChars)} |->
                CharAt(LowerChars, CHOOSE n \in 1..Len(UpperChars) : CharAt(UpperChars, n) = c)]
UpperOfLower == [c \in {CharAt(LowerChars, n) : n \in 1..Len(LowerChars)} |->
                CharAt(UpperChars, CHOOSE n \in 1..Len(LowerChars) : CharAt(LowerChars, n) = c)]

IsDigit(c) == c \in DOMAIN DigitValue
IsLower(c) == c \in DOMAIN UpperOfLower

LowerChar[c \in STRING] == IF c \in DOMAIN LowerOfUpper THEN LowerOfUpper[c] ELSE c
UpperChar[c \in STRING] == IF c \in DOMAIN UpperOfLower THEN UpperOfLower[c] ELSE c

toLowerCase[s \in STRING] ==
    IF s = "" THEN "" ELSE LowerChar[Head(s)] \o toLowerCase[Tail(s)]

toUpperCase[s \in STRING] ==
    IF s = "" THEN "" ELSE UpperChar[Head(s)] \o toUpperCase[Tail(s)]

trimStart[s \in STRING] ==
    IF s # "" /\ Head(s) = " " THEN trimStart[Tail(s)] ELSE s

trimEnd[s \in STRING] ==
    IF s # "" /\ CharAt(s, Len(s)) = " " THEN trimEnd[SubSeq(s, 1, Len(s) - 1)] ELSE s

trim[s \in STRING] == trimEnd[trimStart[s]]

\* s.slice(from) and s.slice(from, to), 0-based, to exclusive, for 0 <= from
slice1[s \in STRING, from \in Nat] == SubSeq(s, from + 1, Len(s))
slice2[s \in STRING, from \in Nat, to \in Int] ==
    SubSeq(s, from + 1, IF to > Len(s) THEN Len(s) ELSE to)

\* s.indexOf(sub): the 0-based place of the first occurrence, -1 if none
indexOf[s \in STRING, sub \in STRING] ==
    LET starts == {n \in 1..(Len(s) - Len(sub) + 1) : SubSeq(s, n, n + Len(sub) - 1) = sub}
    IN  IF starts = {} THEN -1
        ELSE (CHOOSE n \in starts : \A m \in starts : n <= m) - 1

\* s.split(','): the pieces between the commas, at least one piece
split[s \in STRING] ==
    LET c == indexOf[s, ","]
    IN  IF c = -1 THEN <<s>> ELSE <<slice2[s, 0, c]>> \o split[slice1[s, c + 1]]

\* list.join(sep)
join[list \in Seq(STRING), sep \in STRING] ==
    IF Len(list) = 0 THEN ""
    ELSE IF Len(list) = 1 THEN list[1]
    ELSE list[1] \o sep \o join[Tail(list), sep]

\* the value of the run of digits s begins with, after the digits worth acc
DigitsValue[s \in STRING, acc \in Nat] ==
    IF s # "" /\ IsDigit(Head(s))
    THEN DigitsValue[Tail(s), 10 * acc + DigitValue[Head(s)]]
    ELSE acc

\* parseInt(s): leading blanks are skipped, a sign is read, then the longest run of
\* digits; NaN when no digit follows.
parseInt[s \in STRING] ==
    LET t == trimStart[s]
        signed == t # "" /\ Head(t) \in {"-", "+"}
        body == IF signed THEN Tail(t) ELSE t
    IN  IF body = "" \/ ~IsDigit(Head(body)) THEN [nan |-> TRUE, val |-> 0]
        ELSE [nan |-> FALSE,
              val |-> IF signed /\ Head(t) = "-" THEN 0 - DigitsValue[body, 0]
                      ELSE DigitsValue[body, 0]]

\* String(n) for a natural number
NatToString[n \in Nat] ==
    IF n < 10 THEN CharAt(DigitChars, n + 1)
    ELSE NatToString[n \div 10] \o CharAt(DigitChars, (n % 10) + 1)

\* a < b as Array.prototype.sort compares strings: by the code units, a prefix first
StringLess[a \in STRING, b \in STRING] ==
    IF b = "" THEN FALSE
    ELSE IF a = "" THEN TRUE
    ELSE IF Head(a) = Head(b) THEN StringLess[Tail(a), Tail(b)]
    ELSE CharCode[Head(a)] < CharCode[Head(b)]

\* the strings of a set in ascending order
SortStrings[S \in SUBSET STRING] ==
    IF S = {} THEN <<>>
    ELSE LET x == CHOOSE y \in S : TRUE
             rest == SortStrings[S \ {x}]
             k == Cardinality({n \in 1..Len(rest) : StringLess[rest[n], x]})
         IN  SubSeq(rest, 1, k) \o <<x>> \o SubSeq(rest, k + 1, Len(rest))

\* toId(text): lower case, every character outside a-z and 0-9 removed
toId[s \in STRING] ==
    IF s = "" THEN ""
    ELSE LET c == LowerChar[Head(s)]
         IN  (IF IsLower(c) \/ IsDigit(c) THEN c ELSE "") \o toId[Tail(s)]

\* Tools.escapeHTML(str)
escapeHTML[s \in STRING] ==
    IF s = "" THEN ""
    ELSE (CASE Head(s) = "&" -> "&amp;"
            [] Head(s) = "<" -> "&lt;"
            [] Head(s) = ">" -> "&gt;"
            [] OTHER -> Head(s)) \o escapeHTML[Tail(s)]

-----------------------------------------------------------------------------
(* The catalog: Tools.data and the Tools lookups *)

\* Tools.data.Abilities: id -> name
Abilities ==
    [a \in {"blaze", "intimidate", "levitate", "insomnia", "technician", "owntempo",
            "pressure", "swiftswim", "thickfat", "keeneye", "toughclaws", "compoundeyes",
            "static", "flowerveil"} |->
        CASE a = "blaze" -> "Blaze"
          [] a = "intimidate" -> "Intimidate"
          [] a = "levitate" -> "Levitate"
          [] a = "insomnia" -> "Insomnia"
          [] a = "technician" -> "Technician"
          [] a = "owntempo" -> "Own Tempo"
          [] a = "pressure" -> "Pressure"
          [] a = "swiftswim" -> "Swift Swim"
          [] a = "thickfat" -> "Thick Fat"
          [] a = "keeneye" -> "Keen Eye"
          [] a = "toughclaws" -> "Tough Claws"
          [] a = "compoundeyes" -> "Compoundeyes"
          [] a = "static" -> "Static"
          [] a = "flowerveil" -> "Flower Veil"]

\* Tools.data.Movedex: id -> name
Movedex ==
    [m \in {"cut", "fly", "surf", "dig", "rest", "sketch", "chatter"} |->
        toUpperCase[CharAt(m, 1)] \o slice1[m, 1]]

\* the id of each move, by its name
MoveIds ==
    [name \in {Movedex[id] : id \in DOMAIN Movedex} |->
        CHOOSE id \in DOMAIN Movedex : Movedex[id] = name]

\* the keys of Tools.data.TypeChart
TypeChart ==
    {"Bug", "Dark", "Dragon", "Electric", "Fairy", "Fire", "Flying", "Ghost", "Ice",
     "Normal", "Psychic", "Steel", "Water"}

\* Tools.data.Formats['lc'].banlist
LCBanlist == {"Scyther", "Sneasel", "Tangela"}

NoLearnset == [has |-> FALSE, moves |-> {}]
Learnset(ms) == [has |-> TRUE, moves |-> ms]

\* one entry of the Pokedex, as Tools.getTemplate returns it
Template(species, types, tier, color, gen, abilities, evos, prevo, learnset) ==
    [exists |-> TRUE, id |-> toId[species], species |-> species, baseSpecies |-> species,
     types |-> types, tier |-> tier, color |-> color, gen |-> gen,
     abilities |-> abilities, isMega |-> FALSE, evos |-> evos, prevo |-> prevo,
     learnset |-> learnset]

Forme(t, base, mega) == [t EXCEPT !.baseSpecies = base, !.isMega = mega]

\* what Tools.getTemplate returns for a name the Pokedex does not hold
NoTemplate(name) ==
    [exists |-> FALSE, id |-> toId[name], species |-> name, baseSpecies |-> name,
     types |-> <<>>, tier |-> "Illegal", color |-> "", gen |-> 0,
     abilities |-> {}, isMega |-> FALSE, evos |-> <<>>, prevo |-> "",
     learnset |-> NoLearnset]

RegularEntries ==
    { Template("Charmander", <<"Fire">>, "LC", "Red", 1, {"Blaze"},
               <<"charmeleon">>, "", Learnset({"cut", "dig", "rest"})),
      Template("Charmeleon", <<"Fire">>, "NFE", "Red", 1, {"Blaze"},
               <<"charizard">>, "charmander", Learnset({"cut", "rest"})),
      Template("Charizard", <<"Fire", "Flying">>, "OU", "Red", 1, {"Blaze"},
               <<>>, "charmeleon", Learnset({"fly", "rest"})),
      Forme(Template("Charizard-Mega-X", <<"Fire", "Dragon">>, "BL", "Black", 6,
                     {"Tough Claws"}, <<>>, "", NoLearnset), "Charizard", TRUE),
      Template("Magikarp", <<"Water">>, "LC", "Red", 1, {"Swift Swim"},
               <<"gyarados">>, "", Learnset({})),
      Template("Gyarados", <<"Water", "Flying">>, "OU", "Blue", 1, {"Intimidate"},
               <<>>, "magikarp", Learnset({"surf", "rest"})),
      Template("Murkrow", <<"Dark", "Flying">>, "NU", "Black", 2, {"Insomnia"},
               <<"honchkrow">>, "", Learnset({"fly", "rest"})),
      Template("Honchkrow", <<"Dark", "Flying">>, "UU", "Black", 4, {"Insomnia"},
               <<>>, "murkrow", Learnset({"fly"})),
      Template("Scyther", <<"Bug", "Flying">>, "NU", "Green", 1, {"Technician"},
               <<"scizor">>, "", Learnset({"cut", "rest"})),
      Template("Scizor", <<"Bug", "Steel">>, "OU", "Red", 2, {"Technician"},
               <<>>, "scyther", Learnset({"rest"})),
      Template("Smeargle", <<"Normal">>, "NU", "White", 2, {"Own Tempo"},
               <<>>, "", Learnset({"sketch"})),
      Template("Chatot", <<"Normal", "Flying">>, "NU", "Black", 4, {"Keen Eye"},
               <<>>, "", Learnset({"chatter", "fly"})),
      Template("Mewtwo", <<"Psychic">>, "Uber", "Purple", 1, {"Pressure"},
               <<>>, "", Learnset({"rest"})),
      Template("Rotom", <<"Electric", "Ghost">>, "UU", "Red", 4, {"Levitate"},
               <<>>, "", Learnset({"rest"})),
      Forme(Template("Rotom-Wash", <<"Electric", "Water">>, "OU", "Red", 4,
                     {"Levitate"}, <<>>, "", NoLearnset), "Rotom", FALSE),
      Template("Snorlax", <<"Normal">>, "UU", "Black", 1, {"Thick Fat"},
               <<>>, "", Learnset({"surf", "rest"})),
      Forme(Template("Floette-Eternal-Flower", <<"Fairy">>, "Unreleased", "White", 6,
                     {"Flower Veil"}, <<>>, "", Learnset({"rest"})), "Floette", FALSE),
      Forme(Template("Pichu-Spiky-eared", <<"Electric">>, "Illegal", "Yellow", 4,
                     {"Static"}, <<>>, "", Learnset({"rest"})), "Pichu", FALSE) }

\* the Create-A-Pokemon lines: only the last evolution holds a learnset
CAPEntries ==
    { Template("Syclant", <<"Ice", "Bug">>, "CAP", "Blue", 4, {"Compoundeyes"},
               <<>>, "syclar", Learnset({"cut", "rest"})),
      Template("Syclar", <<"Ice", "Bug">>, "CAP", "Blue", 4, {"Compoundeyes"},
               <<"syclant">>, "", NoLearnset),
      Template("Stratagem", <<"Rock">>, "CAP", "Gray", 4, {"Levitate"},
               <<>>, "tactite", Learnset({"rest"})),
      Template("Tactite", <<"Rock">>, "CAP", "Gray", 4, {"Levitate"},
               <<"stratagem">>, "rebble", NoLearnset),
      Template("Rebble", <<"Rock">>, "CAP", "Gray", 4, {"Levitate"},
               <<"tactite">>, "", NoLearnset) }

DexOf(entries) ==
    [id \in {t.id : t \in entries} |-> CHOOSE t \in entries : t.id = id]

FullDex == DexOf(RegularEntries \cup CAPEntries)

\* a catalog of nothing but the species the scan may have to leave out
HiddenDex ==
    DexOf(CAPEntries \cup {t \in RegularEntries : t.tier \in {"Unreleased", "Illegal"}})

\* Tools.getTemplate(name)
\* (an id is its own toId, so a key of the Pokedex is looked up as it is)
getTemplate[name \in STRING] ==
    IF name \in DOMAIN Pokedex THEN Pokedex[name]
    ELSE LET id == toId[name]
         IN  IF id \in DOMAIN Pokedex THEN Pokedex[id] ELSE NoTemplate(name)

\* Tools.getAbility(name)
getAbility[name \in STRING] ==
    LET id == toId[name]
    IN  IF id \in DOMAIN Abilities
        THEN [exists |-> TRUE, id |-> id, name |-> Abilities[id]]
        ELSE [exists |-> FALSE, id |-> id, name |-> name]

\* Tools.getMove(name)
\* (the name of a move has the id of the move: it is looked up without toId)
getMove[name \in STRING] ==
    IF name \in DOMAIN MoveIds
    THEN [exists |-> TRUE, id |-> MoveIds[name], name |-> name]
    ELSE LET id == toId[name]
         IN  IF id \in DOMAIN Movedex
             THEN [exists |-> TRUE, id |-> id, name |-> Movedex[id]]
             ELSE [exists |-> FALSE, id |-> id, name |-> name]

-----------------------------------------------------------------------------
(* Objects used as maps *)

EmptyMap == [k \in {} |-> TRUE]

\* m[k] is truthy / m[k] === false; a missing key is neither
Truthy(m, k) == k \in DOMAIN m /\ m[k]
IsFalse(m, k) == k \in DOMAIN m /\ ~m[k]

Put(m, k, v) == [x \in DOMAIN m \cup {k} |-> IF x = k THEN v ELSE m[x]]

\* Object.count(m, v) and Object.size(m)
ObjectCount(m, v) == Cardinality({k \in DOMAIN m : m[k] = v})
ObjectSize(m) == Cardinality(DOMAIN m)

\* searches[cat], created empty when the token loop first needs it
Category(s, cat) == IF cat \in DOMAIN s THEN s[cat] ELSE EmptyMap

-----------------------------------------------------------------------------
(* The replies of the handler *)

NoReply == [kind |-> "none", text |-> ""]
Box(text) == [kind |-> "box", text |-> text]
Help == [kind |-> "parse", text |-> "/help dexsearch"]
Throw(text) == [kind |-> "throw", text |-> text]

MsgOneAbility == "Specify only one ability."
MsgFourMoves == "Specify a maximum of 4 moves."
MsgTwoTypes == "Specify a maximum of two types."
MsgConflictAbility == "A search cannot both exclude and include an ability."
MsgConflictTier == "A search cannot both exclude and include a tier."
MsgConflictColor == "A search cannot both exclude and include a color."
MsgConflictGen == "A search cannot both exclude and include a generation."
MsgConflictMega == "A search cannot both exclude and include Mega Evolutions."
MsgConflictFE == "A search cannot both exclude and include fully evolved Pokemon."
MsgConflictMove == "A search cannot both exclude and include a move."
MsgConflictType == "A search cannot both exclude and include a type."
MsgAllBroadcast == "A search with the parameter 'all' cannot be broadcast."
MsgNoParameters ==
    "No search parameters other than 'all' were found. Try '/help dexsearch' for more information on this command."
MsgNotFound(t) ==
    "'" \o escapeHTML[t] \o "' could not be found in any of the search categories."
MsgUnknownMove(m) == "'" \o m \o "' is not a known move."
MsgNoResults == "No Pokemon found."
MsgMore(count) ==
    ", and " \o count \o " more. Redo the search with 'all' as a search parameter to show all results."
MsgNoLearnset == "TypeError: Cannot read property 'sketch' of undefined"

-----------------------------------------------------------------------------
(* The token loop *)

allTiers == {"uber", "ou", "uu", "lc", "cap", "bl", "bl2", "ru", "bl3", "nu"}
allColours ==
    {"green", "red", "blue", "white", "brown", "yellow", "purple", "pink", "gray", "black"}
output == 10

\* the locals a query starts with
StartLocals ==
    [searches |-> EmptyMap, moveKeys |-> <<>>, showAll |-> FALSE, megaSearch |-> "null",
     feSearch |-> "null", target |-> "", reply |-> NoReply]

\* the token, trimmed and in lower case, and whether it began with '!'
IsNotSearch(raw) == slice2[toLowerCase[trim[raw]], 0, 1] = "!"
Stripped(raw) ==
    IF IsNotSearch(raw) THEN slice1[toLowerCase[trim[raw]], 1] ELSE toLowerCase[trim[raw]]

\* a bug that forgets the case of a value excluded first and included later
BothPolaritiesIncludedFirst(m, key, isNotSearch) == Truthy(m, key) /\ isNotSearch

\* (m[key] && isNotSearch) || (m[key] === false && !isNotSearch)
BothPolarities(m, key, isNotSearch) ==
    (Truthy(m, key) /\ isNotSearch) \/ (IsFalse(m, key) /\ ~isNotSearch)

\* a bug that refuses every second token for a flag
FlagSetTwice(flag, isNotSearch) == flag # "null"

\* the same test on a flag that is null, true or false
FlagBothPolarities(flag, isNotSearch) ==
    (flag = "true" /\ isNotSearch) \/ (flag = "false" /\ ~isNotSearch)

FlagOf(b) == IF b THEN "true" ELSE "false"

\* a bug that lets one more value in before the cap holds
CapReachedLate(m, cap, isNotSearch) == ObjectCount(m, TRUE) = cap + 1 /\ ~isNotSearch

\* Object.count(searches[cat], true) === cap && !isNotSearch
CapReached(m, cap, isNotSearch) == ObjectCount(m, TRUE) = cap /\ ~isNotSearch

Insert(st, cat, key, isNotSearch) ==
    [st EXCEPT !.searches = Put(st.searches, cat, Put(Category(st.searches, cat), key, ~isNotSearch))]

\* a bug that goes on with the next token instead of replying
FailQuietly(st, text) == st

Fail(st, text) == [st EXCEPT !.reply = Box(text)]

\* a bug that tests for the conflict before the cap
AbilityBranchConflictFirst(st, targetAbility, isNotSearch) ==
    LET m == Category(st.searches, "ability")
    IN  IF BothPolarities(m, targetAbility.name, isNotSearch)
        THEN Fail(st, MsgConflictAbility)
        ELSE IF CapReached(m, 1, isNotSearch) THEN Fail(st, MsgOneAbility)
        ELSE Insert(st, "ability", targetAbility.name, isNotSearch)

AbilityBranch(st, targetAbility, isNotSearch) ==
    LET m == Category(st.searches, "ability")
    IN  IF CapReached(m, 1, isNotSearch) THEN Fail(st, MsgOneAbility)
        ELSE IF BothPolarities(m, targetAbility.name, isNotSearch)
        THEN Fail(st, MsgConflictAbility)
        ELSE Insert(st, "ability", targetAbility.name, isNotSearch)

TierBranch(st, t, isNotSearch) ==
    IF BothPolarities(Category(st.searches, "tier"), t, isNotSearch)
    THEN Fail(st, MsgConflictTier)
    ELSE Insert(st, "tier", t, isNotSearch)

ColorBranch(st, t, isNotSearch) ==
    IF BothPolarities(Category(st.searches, "color"), t, isNotSearch)
    THEN Fail(st, MsgConflictColor)
    ELSE Insert(st, "color", t, isNotSearch)

\* 0 < parseInt[target] && parseInt[target] < 7
IsGeneration(t) == ~parseInt[t].nan /\ 0 < parseInt[t].val /\ parseInt[t].val < 7

GenBranch(st, t, isNotSearch) ==
    IF BothPolarities(Category(st.searches, "gen"), t, isNotSearch)
    THEN Fail(st, MsgConflictGen)
    ELSE Insert(st, "gen", t, isNotSearch)

\* a bug that forgets the broadcast gate
AllBranchNoGate(st, bc) == [st EXCEPT !.showAll = TRUE]

AllBranch(st, bc) ==
    IF bc THEN Fail(st, MsgAllBroadcast) ELSE [st EXCEPT !.showAll = TRUE]

\* a bug that lets the mega token set the flag of the fully evolved species too
MegaBranchBothFlags(st, isNotSearch) ==
    IF FlagBothPolarities(st.megaSearch, isNotSearch) THEN Fail(st, MsgConflictMega)
    ELSE [st EXCEPT !.megaSearch = FlagOf(~isNotSearch), !.feSearch = FlagOf(~isNotSearch)]

MegaBranch(st, isNotSearch) ==
    IF FlagBothPolarities(st.megaSearch, isNotSearch) THEN Fail(st, MsgConflictMega)
    ELSE [st EXCEPT !.megaSearch = FlagOf(~isNotSearch)]

\* a bug that reads nfe like fe
FEBranchNoInversion(st, t, isNotSearch0) ==
    IF FlagBothPolarities(st.feSearch, isNotSearch0) THEN Fail(st, MsgConflictFE)
    ELSE [st EXCEPT !.feSearch = FlagOf(~isNotSearch0)]

FEBranch(st, t, isNotSearch0) ==
    LET isNotSearch == IF t \in {"nfe", "notfullyevolved"} THEN ~isNotSearch0 ELSE isNotSearch0
    IN  IF FlagBothPolarities(st.feSearch, isNotSearch) THEN Fail(st, MsgConflictFE)
        ELSE [st EXCEPT !.feSearch = FlagOf(~isNotSearch)]

\* a bug that keys the move on a string the move lookup does not know
MoveBranchOtherKey(st, targetMove, isNotSearch) ==
    LET m == Category(st.searches, "moves")
    IN  IF CapReached(m, 4, isNotSearch) THEN Fail(st, MsgFourMoves)
        ELSE IF BothPolarities(m, "Move " \o targetMove.name, isNotSearch)
        THEN Fail(st, MsgConflictMove)
        ELSE [Insert(st, "moves", "Move " \o targetMove.name, isNotSearch) EXCEPT
                 !.moveKeys = IF "Move " \o targetMove.name \in DOMAIN m THEN @
                              ELSE Append(@, "Move " \o targetMove.name)]

MoveBranch(st, targetMove, isNotSearch) ==
    LET m == Category(st.searches, "moves")
    IN  IF CapReached(m, 4, isNotSearch) THEN Fail(st, MsgFourMoves)
        ELSE IF BothPolarities(m, targetMove.name, isNotSearch)
        THEN Fail(st, MsgConflictMove)
        ELSE [Insert(st, "moves", targetMove.name, isNotSearch) EXCEPT
                 !.moveKeys = IF targetMove.name \in DOMAIN m THEN @
                              ELSE Append(@, targetMove.name)]

\* target.charAt(0).toUpperCase[] + target.slice(1, target.indexOf[' type'])
TypeName(t) == toUpperCase[CharAt(t, 1)] \o slice2[t, 1, indexOf[t, " type"]]

TypeBranch(st, type, isNotSearch) ==
    LET m == Category(st.searches, "types")
    IN  IF CapReached(m, 2, isNotSearch) THEN Fail(st, MsgTwoTypes)
        ELSE IF BothPolarities(m, type, isNotSearch)
        THEN Fail(st, MsgConflictType)
        ELSE Insert(st, "types", type, isNotSearch)

\* one pass of the loop body on the token raw = targets[i]
ClassifyToken(st0, raw, bc) ==
    LET isNotSearch == IsNotSearch(raw)
        t == Stripped(raw)
        st == [st0 EXCEPT !.target = t]
        targetAbility == getAbility[raw]
        targetMove == getMove[t]
    IN  IF targetAbility.exists THEN AbilityBranch(st, targetAbility, isNotSearch)
        ELSE IF t \in allTiers THEN TierBranch(st, t, isNotSearch)
        ELSE IF t \in allColours THEN ColorBranch(st, t, isNotSearch)
        ELSE IF IsGeneration(t) THEN GenBranch(st, t, isNotSearch)
        ELSE IF t = "all" THEN AllBranch(st, bc)
        ELSE IF t \in {"megas", "mega"} THEN MegaBranch(st, isNotSearch)
        ELSE IF t \in {"fe", "fullyevolved", "nfe", "notfullyevolved"}
        THEN FEBranch(st, t, isNotSearch)
        ELSE IF targetMove.exists THEN MoveBranch(st, targetMove, isNotSearch)
        ELSE IF indexOf[t, " type"] > -1
        THEN IF TypeName(t) \in TypeChart
             THEN TypeBranch([st EXCEPT !.target = TypeName(t)], TypeName(t), isNotSearch)
             ELSE Fail([st EXCEPT !.target = TypeName(t)], MsgNotFound(TypeName(t)))
        ELSE Fail(st, MsgNotFound(t))

\* the whole loop over a token list: it stops at the first token that replies
RECURSIVE ClassifyFrom(_, _, _, _)
ClassifyFrom(st, list, n, bc) ==
    IF n > Len(list) \/ st.reply # NoReply THEN st
    ELSE ClassifyFrom(ClassifyToken(st, list[n], bc), list, n + 1, bc)

-----------------------------------------------------------------------------
(* The scan of the Pokedex *)

\* a bug that counts the categories wrongly by one
NoParametersOffByOne(st) ==
    st.showAll /\ ObjectSize(st.searches) = 1 /\ st.megaSearch = "null" /\ st.feSearch = "null"

\* a bug that forgets the flag of the fully evolved species
NoParametersWithoutFE(st) ==
    st.showAll /\ ObjectSize(st.searches) = 0 /\ st.megaSearch = "null"

\* showAll && Object.size(searches) === 0 && megaSearch === null && feSearch === null
NoParameters(st) ==
    st.showAll /\ ObjectSize(st.searches) = 0 /\ st.megaSearch = "null" /\ st.feSearch = "null"

megaSearchResult(st, template) ==
    \/ st.megaSearch = "null"
    \/ st.megaSearch = "true" /\ template.isMega
    \/ st.megaSearch = "false" /\ ~template.isMega

feSearchResult(st, template) ==
    \/ st.feSearch = "null"
    \/ st.feSearch = "true" /\ Len(template.evos) = 0
    \/ st.feSearch = "false" /\ Len(template.evos) > 0

\* a bug that lets the Create-A-Pokemon species in whatever searches holds
AdmissibleWithCAP(st, template) ==
    template.tier # "Unreleased" /\ template.tier # "Illegal"

\* the tier test of the scan
Admissible(st, template) ==
    /\ template.tier # "Unreleased"
    /\ template.tier # "Illegal"
    /\ (template.tier # "CAP" \/ Truthy(Category(st.searches, "tier"), "cap"))

\* the ids the scan puts into dex
BaseScan(st) ==
    {pokemon \in DOMAIN Pokedex :
        LET template == getTemplate[pokemon]
        IN  Admissible(st, template) /\ megaSearchResult(st, template)
            /\ feSearchResult(st, template)}

-----------------------------------------------------------------------------
(* The category filters: each says whether dex[mon] is deleted *)

\* template.types[n] (0-based), the key "undefined" past the end
TypeSlot(template, n) ==
    IF n < Len(template.types) THEN template.types[n + 1] ELSE "undefined"

\* a bug that looks at the first type slot only when fewer than two types are required
TypesDeleteFirstSlot(m, template) ==
    IF ObjectCount(m, TRUE) = 2
    THEN ~Truthy(m, TypeSlot(template, 0)) \/ ~Truthy(m, TypeSlot(template, 1))
    ELSE \/ IsFalse(m, TypeSlot(template, 0))
         \/ /\ ObjectCount(m, TRUE) > 0
            /\ ~Truthy(m, TypeSlot(template, 0))

\* a bug that keeps a species with one of the two required types
TypesDeleteNeither(m, template) ==
    IF ObjectCount(m, TRUE) = 2
    THEN ~Truthy(m, TypeSlot(template, 0)) /\ ~Truthy(m, TypeSlot(template, 1))
    ELSE \/ IsFalse(m, TypeSlot(template, 0))
         \/ IsFalse(m, TypeSlot(template, 1))
         \/ /\ ObjectCount(m, TRUE) > 0
            /\ ~Truthy(m, TypeSlot(template, 0))
            /\ ~Truthy(m, TypeSlot(template, 1))

TypesDelete(m, template) ==
    IF ObjectCount(m, TRUE) = 2
    THEN ~Truthy(m, TypeSlot(template, 0)) \/ ~Truthy(m, TypeSlot(template, 1))
    ELSE \/ IsFalse(m, TypeSlot(template, 0))
         \/ IsFalse(m, TypeSlot(template, 1))
         \/ /\ ObjectCount(m, TRUE) > 0
            /\ ~Truthy(m, TypeSlot(template, 0))
            /\ ~Truthy(m, TypeSlot(template, 1))

\* a bug that forgets the whitelist
ListDeleteBlacklistOnly(m, value) == IsFalse(m, toLowerCase[value])

\* m[String(value).toLowerCase[]] === false, else a whitelist when one is given
ListDelete(m, value) ==
    \/ IsFalse(m, toLowerCase[value])
    \/ ObjectCount(m, TRUE) > 0 /\ ~Truthy(m, toLowerCase[value])

isLC(template) ==
    /\ Len(template.evos) > 0
    /\ template.prevo = ""
    /\ template.species \notin LCBanlist

TierDelete(m, template) ==
    IF "lc" \in DOMAIN m /\ ((Truthy(m, "lc") /\ ~isLC(template)) \/ (~Truthy(m, "lc") /\ isLC(template)))
    THEN TRUE
    ELSE ListDelete(m, template.tier)

GenDelete(m, template) == ListDelete(m, NatToString[template.gen])

ColorDelete(m, template) == ListDelete(m, template.color)

\* hasAbility !== needsAbility for some ability of the map
AbilityDelete(m, template) ==
    \E ability \in DOMAIN m : (ability \in template.abilities) # m[ability]

\* the template whose learnset the move filter reads for dex[mon]: its own, else
\* its base species'
LearnsetTemplate[mon \in STRING] ==
    LET template == getTemplate[mon]
    IN  IF template.learnset.has THEN template ELSE getTemplate[template.baseSpecies]

\* a bug that walks on past the link that holds the move
WalkGoesOnPastMove(id, moveid) ==
    getTemplate[id].prevo # "" /\ getTemplate[id].learnset.has

\* the condition of the while loop of the walk, at the link id for the move moveid
WalkGoesOn(id, moveid) ==
    /\ getTemplate[id].prevo # ""
    /\ getTemplate[id].learnset.has
    /\ moveid \notin getTemplate[id].learnset.moves

\* prevoTemp = Tools.getTemplate(prevoTemp.prevo)
WalkNext(id) == getTemplate[getTemplate[id].prevo].id

\* the link the walk ends at
WalkEnd[id \in STRING, moveid \in STRING] ==
    IF WalkGoesOn(id, moveid) THEN WalkEnd[WalkNext(id), moveid] ELSE id

SketchExcluded == {"chatter", "struggle", "magikarpsrevenge"}

\* canLearn, read off the learnset of the link the walk ended at
canLearn(learnset, moveid) ==
    ("sketch" \in learnset.moves /\ moveid \notin SketchExcluded) \/ moveid \in learnset.moves

\* the link the walk for the move moveid ends at, started for dex[mon]
LastLink[mon \in STRING, moveid \in STRING] ==
    getTemplate[WalkEnd[LearnsetTemplate[mon].id, moveid]]

\* what one move of the map does to dex[mon]: "unknown" and "throw" end the query
MoveVerdict[mon \in STRING, key \in STRING, needed \in BOOLEAN] ==
    LET move == getMove[key]
    IN  IF ~move.exists THEN "unknown"
        ELSE LET last == LastLink[mon, move.id]
             IN  IF ~last.learnset.has THEN "throw"
                 ELSE IF canLearn(last.learnset, move.id) # needed THEN "delete"
                 ELSE "keep"

\* the ids of dex the move filter looks at: an id whose template and base species
\* hold no learnset is skipped
MoveFilterIds(ids) == {mon \in ids : LearnsetTemplate[mon].learnset.has}

\* the verdicts of the move filter, for each id it looks at and each key of the
\* map, in the order the keys were inserted
MoveVerdicts(m, keys, ids) ==
    [mon \in MoveFilterIds(ids) |-> [n \in 1..Len(keys) |-> MoveVerdict[mon, keys[n], m[keys[n]]]]]

\* the first verdict that ends the query, in the order the two loops reach the
\* verdicts v (id by id in the order of the Pokedex, which is kept sorted by id, and
\* for each id key by key); "none" if the loops run through.
\* A key that is no move stops the loops at the first id, unless an earlier key
\* threw there; without such a key every id and key is reached.
FirstAbort(v, keys) ==
    IF \A n \in 1..Len(keys) : getMove[keys[n]].exists
    THEN IF \E mon \in DOMAIN v, n \in 1..Len(keys) : v[mon][n] = "throw"
         THEN "throw"
         ELSE "none"
    ELSE IF DOMAIN v = {} THEN "none"
    ELSE IF \E mon \in DOMAIN v, n \in 1..Len(keys) :
               /\ \A other \in DOMAIN v : other = mon \/ StringLess[mon, other]
               /\ \A k \in 1..n : v[mon][k] # "unknown"
               /\ v[mon][n] = "throw"
         THEN "throw"
         ELSE "unknown"

\* whether the move filter deletes dex[mon], given the verdicts v
MovesDelete(v, mon) ==
    /\ mon \in DOMAIN v
    /\ \E n \in DOMAIN v[mon] : v[mon][n] = "delete"

\* the reply the move filter ends the query with, NoReply if it runs through
MovesReply(abort, keys) ==
    CASE abort = "unknown" ->
             Box(MsgUnknownMove(keys[CHOOSE n \in 1..Len(keys) : ~getMove[keys[n]].exists]))
      [] abort = "throw" -> Throw(MsgNoLearnset)
      [] OTHER -> NoReply

\* case 'moves', given the verdicts v
MovesOutcome(v, keys, ids) ==
    [ids |-> IF FirstAbort(v, keys) = "none" THEN {mon \in ids : ~MovesDelete(v, mon)} ELSE ids,
     reply |-> MovesReply(FirstAbort(v, keys), keys)]

\* case 'moves' for the map m on the ids of dex
MovesStep(m, keys, ids) ==
    CHOOSE next \in {MovesOutcome(v, keys, ids) : v \in {MoveVerdicts(m, keys, ids)}} : TRUE

\* the order the filter loop visits the categories in
SearchOrder == <<"moves", "types", "ability", "tier", "gen", "color">>

\* whether the filter of category cat, another than moves, deletes dex[mon]
CategoryDelete(st, cat, mon) ==
    CASE cat = "types" -> TypesDelete(st.searches[cat], getTemplate[mon])
      [] cat = "ability" -> AbilityDelete(st.searches[cat], getTemplate[mon])
      [] cat = "tier" -> TierDelete(st.searches[cat], getTemplate[mon])
      [] cat = "gen" -> GenDelete(st.searches[cat], getTemplate[mon])
      [] cat = "color" -> ColorDelete(st.searches[cat], getTemplate[mon])

\* a bug that starts every pass from the species the base scan admitted
CategoryStepAfresh(st, cat, prev) ==
    IF prev.reply # NoReply \/ cat \notin DOMAIN st.searches THEN prev
    ELSE IF cat = "moves" THEN MovesStep(st.searches[cat], st.moveKeys, BaseScan(st))
    ELSE [ids |-> {mon \in BaseScan(st) : ~CategoryDelete(st, cat, mon)}, reply |-> NoReply]

\* one pass of the filter loop, for category cat, on the outcome prev of the passes
\* before it: a reply ends the loop, a category without a map is skipped
CategoryStep(st, cat, prev) ==
    IF prev.reply # NoReply \/ cat \notin DOMAIN st.searches THEN prev
    ELSE IF cat = "moves" THEN MovesStep(st.searches[cat], st.moveKeys, prev.ids)
    ELSE [ids |-> {mon \in prev.ids : ~CategoryDelete(st, cat, mon)}, reply |-> NoReply]

\* the filter loop over the categories order[1..n], started on the ids ids0
FilterLoop(st, order, ids0) ==
    LET run[n \in 0..Len(order)] ==
            IF n = 0 THEN [ids |-> ids0, reply |-> NoReply]
            ELSE CHOOSE r \in {CategoryStep(st, order[n], prev) : prev \in {run[n - 1]}} : TRUE
    IN  run[Len(order)]

\* the query up to the assembly, for a list of tokens: whether it gets there, and
\* with which ids in dex
Candidates(list, bc) ==
    CHOOSE out \in
        {IF st.reply # NoReply \/ NoParameters(st) THEN [ok |-> FALSE, ids |-> {}]
         ELSE CHOOSE r \in {[ok |-> f.reply = NoReply, ids |-> f.ids] :
                               f \in {FilterLoop(st, SearchOrder, BaseScan(st))}} : TRUE :
            st \in {ClassifyFrom(StartLocals, list, 1, bc)}} : TRUE

-----------------------------------------------------------------------------
(* The assembly of the reply *)

\* a bug that drops every forme, with or without its base species among the names
FormeFilterBasesOnly(ids) ==
    {getTemplate[mon].species : mon \in {m \in ids : getTemplate[m].species = getTemplate[m].baseSpecies}}

\* a bug that drops no forme
FormeFilterNone(ids) == {getTemplate[mon].species : mon \in ids}

\* the species names of dex without the formes whose base species is among them
FormeFilter(ids) ==
    LET names == {getTemplate[mon].species : mon \in ids}
    IN  {species \in names :
            LET template == getTemplate[species]
            IN  ~(species # template.baseSpecies /\ template.baseSpecies \in names)}

\* the names the forme filter leaves, sorted
SortedNames(ids) == SortStrings[FormeFilter(ids)]

\* the list rotated left by k places
Rotate(list, k) == SubSeq(list, k + 1, Len(list)) \o SubSeq(list, 1, k)

\* string() of a number: its decimal digits
string[n \in Nat] == NatToString[n]

\* a bug that sorts and joins only when the names fit the limit, whatever showAll is
AssemblyIgnoringShowAll(st, sorted, k) ==
    IF Len(sorted) > 0
    THEN IF Len(sorted) <= output
         THEN [results |-> sorted, reply |-> Box(join[sorted, ", "])]
         ELSE [results |-> Rotate(sorted, k),
               reply |-> Box(join[SubSeq(Rotate(sorted, k), 1, 10), ", "]
                             \o MsgMore(string[Len(sorted) - output]))]
    ELSE [results |-> <<>>, reply |-> Box(MsgNoResults)]

\* a bug that reports the number of names shown instead of the number left out
AssemblyCountingShown(st, sorted, k) ==
    IF Len(sorted) > 0
    THEN IF st.showAll \/ Len(sorted) <= output
         THEN [results |-> sorted, reply |-> Box(join[sorted, ", "])]
         ELSE [results |-> Rotate(sorted, k),
               reply |-> Box(join[SubSeq(Rotate(sorted, k), 1, 10), ", "]
                             \o MsgMore(string[output]))]
    ELSE [results |-> <<>>, reply |-> Box(MsgNoResults)]

\* results and reply for the names left by the forme filter, given sorted; the
\* sampling branch shuffles (here: rotates the sorted list by k), keeps results in
\* that order and shows its first ten names
Assembly(st, sorted, k) ==
    IF Len(sorted) > 0
    THEN IF st.showAll \/ Len(sorted) <= output
         THEN [results |-> sorted, reply |-> Box(join[sorted, ", "])]
         ELSE [results |-> Rotate(sorted, k),
               reply |-> Box(join[SubSeq(Rotate(sorted, k), 1, 10), ", "]
                             \o MsgMore(string[Len(sorted) - output]))]
    ELSE [results |-> <<>>, reply |-> Box(MsgNoResults)]

-----------------------------------------------------------------------------
(* The handler as a state machine *)

Locals ==
    [searches |-> searches, moveKeys |-> moveKeys, showAll |-> showAll,
     megaSearch |-> megaSearch, feSearch |-> feSearch, target |-> target, reply |-> reply]

SetLocals(st) ==
    /\ searches' = st.searches
    /\ moveKeys' = st.moveKeys
    /\ showAll' = st.showAll
    /\ megaSearch' = st.megaSearch
    /\ feSearch' = st.feSearch
    /\ target' = st.target
    /\ reply' = st.reply

\* all lists of at most n tokens of the set T
TokenLists(T, n) == UNION {[1..k -> T] : k \in 0..n}

\* a query made of tokens of T, sent privately or broadcast, on one of the catalogs
InitQueryOn(T, n, contexts, catalogs) ==
    /\ target \in {join[list, ","] : list \in TokenLists(T, n)}
    /\ broadcasting \in contexts
    /\ Pokedex \in catalogs
    /\ targets = <<>>
    /\ i = 0
    /\ searches = EmptyMap
    /\ moveKeys = <<>>
    /\ showAll = FALSE
    /\ megaSearch = "null"
    /\ feSearch = "null"
    /\ dex = {}
    /\ results = <<>>
    /\ reply = NoReply
    /\ pc = "start"
    /\ prevoTemp = ""
    /\ walkMove = ""
    /\ walkStart = ""
    /\ walkSteps = 0

InitQuery(T, n, contexts) == InitQueryOn(T, n, contexts, {FullDex})

\* the empty argument is answered with the help; else the argument is split
Start ==
    /\ pc = "start"
    /\ IF target = ""
       THEN /\ reply' = Help
            /\ pc' = "done"
            /\ UNCHANGED <<targets, i>>
       ELSE /\ targets' = split[target]
            /\ i' = 1
            /\ pc' = "classify"
            /\ reply' = reply
    /\ UNCHANGED <<target, broadcasting, Pokedex, searches, moveKeys, showAll, megaSearch,
                   feSearch, dex, results>>
    /\ UNCHANGED walkVars

\* one pass of the token loop
Classify ==
    /\ pc = "classify"
    /\ LET st == ClassifyToken(Locals, targets[i], broadcasting)
       IN  /\ SetLocals(st)
           /\ IF st.reply # NoReply
              THEN pc' = "done" /\ i' = i
              ELSE i' = i + 1 /\ pc' = IF i + 1 > Len(targets) THEN "scan" ELSE "classify"
    /\ UNCHANGED <<broadcasting, Pokedex, targets, dex, results>>
    /\ UNCHANGED walkVars

\* the check for a query of `all` alone, then the scan of the Pokedex
Scan ==
    /\ pc = "scan"
    /\ IF NoParameters(Locals)
       THEN reply' = Box(MsgNoParameters) /\ pc' = "done" /\ dex' = dex
       ELSE reply' = reply /\ pc' = "filter" /\ dex' = BaseScan(Locals)
    /\ UNCHANGED <<target, broadcasting, Pokedex, targets, i, searches, moveKeys, showAll,
                   megaSearch, feSearch, results>>
    /\ UNCHANGED walkVars

\* a bug that deletes from the Pokedex what the filters delete from dex
FilterOnCatalog ==
    /\ pc = "filter"
    /\ LET r == FilterLoop(Locals, SearchOrder, dex)
       IN  /\ dex' = r.ids
           /\ Pokedex' = [id \in DOMAIN Pokedex \ (dex \ r.ids) |-> Pokedex[id]]
           /\ reply' = r.reply
           /\ pc' = IF r.reply = NoReply THEN "assemble" ELSE "done"
    /\ UNCHANGED <<target, broadcasting, targets, i, searches, moveKeys, showAll,
                   megaSearch, feSearch, results>>
    /\ UNCHANGED walkVars

\* the loop over the categories
Filter ==
    /\ pc = "filter"
    /\ LET r == FilterLoop(Locals, SearchOrder, dex)
       IN  /\ dex' = r.ids
           /\ reply' = r.reply
           /\ pc' = IF r.reply = NoReply THEN "assemble" ELSE "done"
    /\ UNCHANGED <<target, broadcasting, Pokedex, targets, i, searches, moveKeys, showAll,
                   megaSearch, feSearch, results>>
    /\ UNCHANGED walkVars

\* the forme filter, the sort or the sample, and the reply
Assemble ==
    /\ pc = "assemble"
    /\ \E sorted \in {SortedNames(dex)}, k \in 0..MaxRotate :
          LET a == Assembly(Locals, sorted, k)
          IN  results' = a.results /\ reply' = a.reply
    /\ pc' = "done"
    /\ UNCHANGED <<target, broadcasting, Pokedex, targets, i, searches, moveKeys, showAll,
                   megaSearch, feSearch, dex>>
    /\ UNCHANGED walkVars

Next == Start \/ Classify \/ Scan \/ Filter \/ Assemble

-----------------------------------------------------------------------------
(* The walk along the prevolutions, step by step *)

\* the walk for one species the move filter looks at and one move: prevoTemp
\* starts as the template the filter reads the learnset of
InitWalk ==
    /\ Pokedex = FullDex
    /\ walkStart \in {LearnsetTemplate[mon].id : mon \in MoveFilterIds(DOMAIN Pokedex)}
    /\ walkMove \in DOMAIN Movedex
    /\ prevoTemp = walkStart
    /\ walkSteps = 0
    /\ pc = "walk"
    /\ target = ""
    /\ broadcasting = FALSE
    /\ targets = <<>>
    /\ i = 0
    /\ searches = EmptyMap
    /\ moveKeys = <<>>
    /\ showAll = FALSE
    /\ megaSearch = "null"
    /\ feSearch = "null"
    /\ dex = {}
    /\ results = <<>>
    /\ reply = NoReply

\* one pass of the while loop
WalkStep ==
    /\ pc = "walk"
    /\ WalkGoesOn(prevoTemp, walkMove)
    /\ prevoTemp' = WalkNext(prevoTemp)
    /\ walkSteps' = walkSteps + 1
    /\ UNCHANGED <<pc, walkMove, walkStart, Pokedex>>
    /\ UNCHANGED queryVars

\* the condition of the loop fails
WalkExit ==
    /\ pc = "walk"
    /\ ~WalkGoesOn(prevoTemp, walkMove)
    /\ pc' = "walked"
    /\ UNCHANGED <<prevoTemp, walkSteps, walkMove, walkStart, Pokedex>>
    /\ UNCHANGED queryVars

NextWalk == WalkStep \/ WalkExit

\* the loop is sequential code: it goes on while it can
SpecWalk == InitWalk /\ [][NextWalk]_vars /\ WF_vars(NextWalk)

\* the tokens of the general specification
GeneralTokens ==
    {"all", " ALL", "fire type", "!fire type", "cap", "!mega", "nfe", " Blaze", "rest", "foo"}

Init == InitQuery(GeneralTokens, MaxTargets, BOOLEAN)

Spec == Init /\ [][Next]_vars

-----------------------------------------------------------------------------
(* What a behaviour says about the query it runs *)

\* the number of tokens the loop has classified without a reply
Classified == IF i = 0 THEN 0 ELSE i - 1

\* the token loop ended the query at targets[i]
LoopFailed == pc = "done" /\ i \in 1..Len(targets)

\* the query ran through to the reply that lists the results
Succeeded == pc = "done" /\ i > Len(targets) /\ reply.kind = "box" /\ reply # Box(MsgNoParameters)

\* the entry a token puts into searches when it is the only token: empty for a
\* token that is no category value
TokenSearch(raw) == ClassifyToken(StartLocals, raw, FALSE).searches

Categories == {"ability", "tier", "color", "gen", "types", "moves"}

\* the entries of the tokens of the query
TokenSearches == [n \in 1..Len(targets) |-> TokenSearch(targets[n])]

\* the entries sx and sy are those of v and !v for a value v of the category cat
OppositeEntries(sx, sy, cat) ==
    /\ cat \in DOMAIN sx \cap DOMAIN sy
    /\ DOMAIN sx[cat] = DOMAIN sy[cat]
    /\ \E key \in DOMAIN sx[cat] : sx[cat][key] # sy[cat][key]

\* the tokens at a and b are v and !v for a value v of the category cat
Opposite(a, b, cat) ==
    \E ts \in {TokenSearches} : OppositeEntries(ts[a], ts[b], cat)

\* the places of the query at which some other token of 1..upto is the opposite
OpposedPlaces(upto) ==
    CHOOSE places \in
        {{<<a, b, cat>> \in (1..upto) \X (1..upto) \X Categories :
              OppositeEntries(ts[a], ts[b], cat)} : ts \in {TokenSearches}} : TRUE

ConflictMessage ==
    [cat \in Categories |->
        CASE cat = "ability" -> MsgConflictAbility
          [] cat = "tier" -> MsgConflictTier
          [] cat = "color" -> MsgConflictColor
          [] cat = "gen" -> MsgConflictGen
          [] cat = "types" -> MsgConflictType
          [] cat = "moves" -> MsgConflictMove]

CapMessage == [cat \in {"ability", "types", "moves"} |->
                  CASE cat = "ability" -> MsgOneAbility
                    [] cat = "types" -> MsgTwoTypes
                    [] cat = "moves" -> MsgFourMoves]

-----------------------------------------------------------------------------
(* C1: a value asked for with both polarities *)

ConflictTokens ==
    {"blaze", "!blaze", "intimidate", "ou", "!ou", "red", "!red", "1", "!1",
     "fire type", "!fire type", "rest", "!rest", "foo"}

InitConflict == InitQuery(ConflictTokens, MaxTargets, {FALSE})

SpecConflict == InitConflict /\ [][Next]_vars

\* C1 as stated: a query whose token list holds v and !v of some category, in any
\* places and among any other tokens, ends with the reply of a conflicting predicate
C1_AlwaysConflict ==
    pc = "done" =>
        \A place \in OpposedPlaces(Len(targets)) : reply = Box(ConflictMessage[place[3]])

\* C1 amended: the tokens the loop has accepted never hold v and !v, so such a query
\* never succeeds; the token that meets its opposite among the accepted ones ends
\* the query with the conflict reply of its category, or, when it is the positive
\* one and the cap of the category is reached, with the cap reply; and the query
\* of just v and !v, in either order, ends with the conflict reply
C1_ConflictAtLatest ==
    /\ OpposedPlaces(Classified) = {}
    /\ LoopFailed =>
          \A place \in OpposedPlaces(i) :
              place[2] = i =>
                  \/ reply = Box(ConflictMessage[place[3]])
                  \/ /\ place[3] \in DOMAIN CapMessage
                     /\ ~IsNotSearch(targets[i])
                     /\ reply = Box(CapMessage[place[3]])
    /\ (pc = "done" /\ Len(targets) = 2) =>
          \A place \in OpposedPlaces(2) : reply = Box(ConflictMessage[place[3]])

\* the third token meets its opposite, accepted as the first, and is refused for it
C1_Witness ==
    /\ LoopFailed
    /\ i = 3
    /\ Opposite(1, 3, "types")
    /\ reply = Box(MsgConflictType)

-----------------------------------------------------------------------------
(* C2: the caps on the values of polarity true *)

CapTokens ==
    {"blaze", "intimidate", "!static", "fire type", "water type", "flying type", "!dark type"}

\* five moves to ask for, and four of them with a move to exclude
MoveTokens == {"cut", "fly", "surf", "dig", "rest"}
MoveTokensExcluding == {"cut", "fly", "surf", "dig", "!rest"}

InitCaps ==
    \/ InitQuery(CapTokens, MaxTargets, {FALSE})
    \/ InitQuery(MoveTokens, MaxMoveTargets, {FALSE})
    \/ InitQuery(MoveTokensExcluding, MaxMoveTargets, {FALSE})

SpecCaps == InitCaps /\ [][Next]_vars

\* the caps the token loop tests for
Caps == [cat \in DOMAIN CapMessage |->
            CASE cat = "ability" -> 1 [] cat = "types" -> 2 [] cat = "moves" -> 4]

\* the number of values of polarity true in category cat of searches
TrueCount(cat) == ObjectCount(Category(searches, cat), TRUE)

\* the token at place n asks for a value of category cat, with polarity true, that
\* searches does not hold with polarity true, while the cap of cat is reached
WouldExceed(n, cat) ==
    \E e \in {TokenSearch(targets[n])} :
        /\ cat \in DOMAIN e
        /\ \E key \in DOMAIN e[cat] : e[cat][key] /\ ~Truthy(Category(searches, cat), key)
        /\ TrueCount(cat) = Caps[cat]

\* C2: in every state at most 1 ability, 2 types and 4 moves have polarity true (the
\* states of the token loop and the set the filters get); the pass of the loop
\* over a token that would exceed a cap ends the query with the reply of that cap
\* and leaves searches alone; and no token of polarity false is answered with a cap
\* reply
C2_CapsKept ==
    /\ [](\A cat \in DOMAIN Caps : TrueCount(cat) <= Caps[cat])
    /\ [][\A cat \in DOMAIN Caps :
             (pc = "classify" /\ WouldExceed(i, cat))
                 => pc' = "done" /\ reply' = Box(CapMessage[cat]) /\ searches' = searches]_vars
    /\ []((LoopFailed /\ IsNotSearch(targets[i]))
             => \A cat \in DOMAIN Caps : reply # Box(CapMessage[cat]))

\* a fifth move of polarity true is refused with the reply of the cap on moves
C2_Witness ==
    /\ LoopFailed
    /\ i = 5
    /\ TrueCount("moves") = 4
    /\ WouldExceed(5, "moves")
    /\ reply = Box(MsgFourMoves)

-----------------------------------------------------------------------------
(* C3: what the scan lets into dex *)

AdmitTokens == {"all", "cap", "!cap", "ou", "!ou", "bug type", "fe", "rest", "!mega"}

InitAdmit == InitQueryOn(AdmitTokens, MaxTargets, {FALSE}, {FullDex, HiddenDex})

SpecAdmit == InitAdmit /\ [][Next]_vars

\* the template may be among the results of the query: its tier is neither
\* Unreleased nor Illegal, and is CAP only if searches holds cap with polarity true
MayBeListed(template) ==
    /\ template.tier \notin {"Unreleased", "Illegal"}
    /\ template.tier = "CAP" => Truthy(Category(searches, "tier"), "cap")

\* C3: on every catalog and in every state of a query, the species of dex and the
\* species named in results have a tier that is neither Unreleased nor Illegal, and
\* the tier CAP only if the tier predicate holds cap with polarity true; so it is
\* for the result of every query that succeeds, with or without a category
\* predicate
C3_BaseAdmissibility ==
    /\ \A mon \in dex : MayBeListed(getTemplate[mon])
    /\ \A n \in 1..Len(results) : MayBeListed(getTemplate[results[n]])

\* a query that succeeds and lists a species of tier CAP, next to a catalog that
\* holds species of the tiers Unreleased and Illegal
C3_Witness ==
    /\ Succeeded
    /\ \E n \in 1..Len(results) : getTemplate[results[n]].tier = "CAP"
    /\ \E mon \in DOMAIN Pokedex : Pokedex[mon].tier = "Unreleased"
    /\ \E mon \in DOMAIN Pokedex : Pokedex[mon].tier = "Illegal"

-----------------------------------------------------------------------------
(* C4: the order of the parameters *)

OrderTokens ==
    {"fire type", "water type", "flying type", "!fire type", "ou", "rest", "all", "fe"}

InitOrder == InitQuery(OrderTokens, MaxTargets, {FALSE})

SpecOrder == InitOrder /\ [][Next]_vars

\* the query got past the token loop, the check for `all` alone and the filters
ReachedAssembly ==
    \/ pc = "assemble"
    \/ /\ pc = "done"
       /\ i > Len(targets)
       /\ reply \notin {Box(MsgNoParameters), Throw(MsgNoLearnset)}
       /\ \A n \in 1..Len(moveKeys) : reply # Box(MsgUnknownMove(moveKeys[n]))

\* the token list of the query, reordered
Reordered(perm) == [n \in 1..Len(targets) |-> targets[perm[n]]]

\* C4: the order of the parameters does not matter: a query and the query of the
\* same tokens in any other order both fail before the assembly or both get there,
\* and then with the same species in dex
C4_OrderDoesNotMatter ==
    (pc \in {"assemble", "done"} /\ Len(targets) > 0) =>
        \A perm \in Permutations(1..Len(targets)) :
            \E other \in {Candidates(Reordered(perm), broadcasting)} :
                /\ other.ok <=> ReachedAssembly
                /\ other.ok => other.ids = dex

-----------------------------------------------------------------------------
(* C5: the tier lc *)

TierTokens == {"lc", "!lc", "all", "fe", "rest", "flying type", "ou", "!nu"}

InitTier == InitQuery(TierTokens, MaxTargets, {FALSE})

SpecTier == InitTier /\ [][Next]_vars

\* the locals without the map of category cat
Without(st, cat) ==
    [st EXCEPT !.searches = [c \in DOMAIN st.searches \ {cat} |-> st.searches[c]]]

\* lc is the only value the tier category holds
OnlyLC == "tier" \in DOMAIN searches /\ DOMAIN searches["tier"] = {"lc"}

\* C5: when lc is the only value of the tier category, with polarity p, the species
\* the tier filter leaves in dex are those the other filters leave whose computed
\* LC legality (an evolution, no prevolution, not on the ban list) equals p,
\* whatever tier they are stored in
C5_ComputedLegalityDecides ==
    (ReachedAssembly /\ OnlyLC) =>
        \E others \in {FilterLoop(Without(Locals, "tier"), SearchOrder, BaseScan(Locals))} :
            dex = {mon \in others.ids : isLC(getTemplate[mon]) = searches["tier"]["lc"]}

-----------------------------------------------------------------------------
(* C6, C7, C8: the parameter `all` *)

\* the token is the parameter `all`
IsAll(raw) == Stripped(raw) = "all" /\ ~getAbility[raw].exists

\* the query is made of the parameter `all` and nothing else
AllAlone == Len(targets) > 0 /\ \A n \in 1..Len(targets) : IsAll(targets[n])

\* the token, alone in a query, gives a category predicate or a structural flag
IsPredicate(raw) ==
    \E st \in {ClassifyToken(StartLocals, raw, FALSE)} :
        st.reply = NoReply /\ (st.searches # EmptyMap \/ st.megaSearch # "null" \/ st.feSearch # "null")

\* the reply that lists every species of the catalog the scan lets in, sorted
FullCatalogReply ==
    Box(join[SortedNames({mon \in DOMAIN Pokedex : Admissible(StartLocals, getTemplate[mon])}), ", "])

\* C6 as stated: the query of `all` alone, sent privately, succeeds with the whole
\* catalog less the inadmissible tiers, sorted
C6_AllAloneListsCatalog ==
    (pc = "done" /\ ~broadcasting /\ AllAlone) => reply = FullCatalogReply

\* C6 amended: the query of `all` alone, sent privately, is refused with the reply
\* that no search parameters other than `all` were found, and lists nothing
C6_AllAloneRefused ==
    (pc = "done" /\ ~broadcasting /\ AllAlone) =>
        reply = Box(MsgNoParameters) /\ results = <<>> /\ dex = {}

\* the private query "all" has been answered
C6_Witness == pc = "done" /\ ~broadcasting /\ target = "all" /\ showAll /\ reply.kind = "box"

\* C7: a query ends with the reply of the empty query exactly if the token loop
\* ran through without a reply, showAll is set, every category map is empty and
\* neither the mega flag nor the fully evolved flag is set; so `all` with a
\* predicate or a flag is never refused as empty
C7_EmptyQueryExactly ==
    pc = "done" =>
        /\ reply = Box(MsgNoParameters) <=>
              /\ Len(targets) > 0
              /\ i > Len(targets)
              /\ showAll
              /\ \A cat \in Categories : Category(searches, cat) = EmptyMap
              /\ megaSearch = "null"
              /\ feSearch = "null"
        /\ (\E n \in 1..Len(targets) : IsPredicate(targets[n])) => reply # Box(MsgNoParameters)

\* a query of `all` twice is refused as empty
C7_Witness ==
    /\ pc = "done"
    /\ Len(targets) = 2
    /\ AllAlone
    /\ reply = Box(MsgNoParameters)

\* C8 as stated: only a broadcast query of `all` with no other predicate is refused
\* as not to be broadcast
C8_OnlyAllAloneGated ==
    (pc = "done" /\ reply = Box(MsgAllBroadcast)) =>
        broadcasting /\ \A n \in 1..Len(targets) : ~IsPredicate(targets[n])

\* the place of the first `all` of the query, 0 if it has none
FirstAll ==
    IF \E n \in 1..Len(targets) : IsAll(targets[n])
    THEN CHOOSE n \in 1..Len(targets) : IsAll(targets[n]) /\ \A k \in 1..(n - 1) : ~IsAll(targets[k])
    ELSE 0

\* C8 amended: the reply that `all` cannot be broadcast is given exactly to the
\* broadcast queries whose token loop reaches an `all`, with or without other
\* predicates: a broadcast query that holds `all` ends in the token loop, at its
\* first `all` with that reply or at an earlier token that is refused; and no
\* private query gets that reply
C8_AnyAllGated ==
    pc = "done" =>
        /\ reply = Box(MsgAllBroadcast) => broadcasting /\ LoopFailed /\ i = FirstAll
        /\ (broadcasting /\ FirstAll > 0) =>
              /\ LoopFailed
              /\ i <= FirstAll
              /\ i = FirstAll => reply = Box(MsgAllBroadcast)

\* a broadcast query is refused at its `all`, after a predicate was accepted
C8_Witness ==
    /\ pc = "done"
    /\ broadcasting
    /\ reply = Box(MsgAllBroadcast)
    /\ i = 2
    /\ IsPredicate(targets[1])

-----------------------------------------------------------------------------
(* C9: what the move filter leaves *)

LearnTokens == {"cap", "cut", "!cut", "rest", "!rest", "fly", "chatter", "all", "nfe"}

InitLearn == InitQuery(LearnTokens, MaxTargets, {FALSE})

SpecLearn == InitLearn /\ [][Next]_vars

\* the species can learn the move named key: the link its walk ends at holds a
\* learnset with the move, or with sketch when the move is none of the three
\* moves sketch cannot copy
CanLearnMove(mon, key) ==
    \E last \in {LastLink[mon, getMove[key].id]} :
        /\ last.learnset.has
        /\ \/ getMove[key].id \in last.learnset.moves
           \/ "sketch" \in last.learnset.moves
              /\ getMove[key].id \notin {"chatter", "struggle", "magikarpsrevenge"}

\* C9: when a query with a move category succeeds, every species it lists can
\* learn every move of polarity true and no move of polarity false, also the
\* species that hold no learnset of their own
C9_ListedSpeciesLearn ==
    (Succeeded /\ "moves" \in DOMAIN searches) =>
        \A n \in 1..Len(results), key \in DOMAIN searches["moves"] :
            CanLearnMove(getTemplate[results[n]].id, key) = searches["moves"][key]

-----------------------------------------------------------------------------
(* C10: the walk along the prevolutions *)

\* the species the prevolution references lead through, from id on
PrevoChain[id \in STRING] ==
    IF getTemplate[id].prevo = "" THEN <<id>>
    ELSE <<id>> \o PrevoChain[getTemplate[getTemplate[id].prevo].id]

\* the learnset of the link holds the move the walk is for
HoldsMove(id) == getTemplate[id].learnset.has /\ walkMove \in getTemplate[id].learnset.moves

WalkStopsRight ==
    \E chain \in {PrevoChain[walkStart]} :
        /\ walkSteps < Len(chain)
        /\ prevoTemp = chain[walkSteps + 1]
        /\ \A k \in 1..walkSteps :
              ~HoldsMove(chain[k]) /\ getTemplate[chain[k]].prevo # ""
              /\ getTemplate[chain[k]].learnset.has
        /\ pc = "walked" =>
              /\ \/ HoldsMove(prevoTemp)
                 \/ getTemplate[prevoTemp].prevo = ""
                 \/ ~getTemplate[prevoTemp].learnset.has
              /\ prevoTemp = WalkEnd[walkStart, walkMove]

-----------------------------------------------------------------------------
(* C11, C12, C13: the assembly of the reply *)

AssemblyTokens == {"mega", "!mega", "electric type", "ou", "uu", "all", "rest", "red"}

InitAssembly == InitQuery(AssemblyTokens, MaxTargets, {FALSE})

SpecAssembly == InitAssembly /\ [][Next]_vars

\* the assembly has run: the query ended after the filters
Assembled == pc = "done" /\ ReachedAssembly

\* the names of the species the filters left, and the names in results
CandidateNames == {Pokedex[mon].species : mon \in dex}
ListedNames == {results[n] : n \in 1..Len(results)}

\* the candidate is a forme whose base species is a candidate too
FormeOfCandidate(mon) ==
    /\ Pokedex[mon].species # Pokedex[mon].baseSpecies
    /\ Pokedex[mon].baseSpecies \in CandidateNames

\* C11: the names in results are names of candidates, and a candidate is missing
\* from them exactly if its name differs from the name of its base species and
\* the base species is among the candidates; so a base form is never dropped, and
\* of a forme and its base form only the base form is listed
C11_FormeDroppedIffBaseListed ==
    Assembled =>
        /\ ListedNames \subseteq CandidateNames
        /\ \A mon \in dex : Pokedex[mon].species \notin ListedNames <=> FormeOfCandidate(mon)

\* a query has listed Rotom and dropped Rotom-Wash, both left by the filters
C11_Witness ==
    /\ Assembled
    /\ {"rotom", "rotomwash"} \subseteq dex
    /\ "Rotom" \in ListedNames
    /\ "Rotom-Wash" \notin ListedNames
    /\ reply.kind = "box"

\* the names of the candidates without the formes of candidates
Deduplicated == {Pokedex[mon].species : mon \in {m \in dex : ~FormeOfCandidate(m)}}

\* list is in strictly ascending order
Ascending(list) == \A n \in 1..(Len(list) - 1) : StringLess[list[n], list[n + 1]]

\* the names of list from place a to place b, in the order of list, separated by sep
RECURSIVE Listing(_, _, _, _)
Listing(list, a, b, sep) ==
    IF a > b THEN "" ELSE list[a] \o (IF a < b THEN sep ELSE "") \o Listing(list, a + 1, b, sep)

\* C12: with no deduplicated name the reply is the no-results message; with some,
\* and showAll set or at most 10 of them, the reply is the names separated by
\* ", ", each deduplicated name once, in strictly ascending order
C12_EmptyOrCompleteSortedList ==
    Assembled =>
        /\ Deduplicated = {} => reply = Box(MsgNoResults)
        /\ (Deduplicated # {} /\ (showAll \/ Cardinality(Deduplicated) <= 10)) =>
              /\ ListedNames = Deduplicated
              /\ Len(results) = Cardinality(Deduplicated)
              /\ Ascending(results)
              /\ reply = Box(Listing(results, 1, Len(results), ", "))

\* a query with "all" has listed more than 10 names
C12_Witness ==
    /\ Assembled
    /\ showAll
    /\ Cardinality(Deduplicated) > 10
    /\ reply = Box(Listing(results, 1, Len(results), ", "))

\* a query has found nothing and said so
C12_WitnessNone == Assembled /\ dex = {} /\ reply = Box(MsgNoResults)

\* the note of the sampling branch for count names left out
NoteOfMore(count) ==
    ", and " \o NatToString[count]
        \o " more. Redo the search with 'all' as a search parameter to show all results."

\* C13: without showAll and with n > 10 deduplicated names the reply is a box
\* with 10 different deduplicated names followed by the note that n - 10 more
\* exist and that 'all' shows them
C13_TenNamesAndTrueCount ==
    (Assembled /\ ~showAll /\ Cardinality(Deduplicated) > 10) =>
        /\ reply.kind = "box"
        /\ \E shown \in {SubSeq(results, 1, 10)} :
              /\ Len(shown) = 10
              /\ Cardinality({shown[n] : n \in 1..10}) = 10
              /\ {shown[n] : n \in 1..10} \subseteq Deduplicated
              /\ reply.text = Listing(shown, 1, 10, ", ")
                                \o NoteOfMore(Cardinality(Deduplicated) - 10)

\* a query without "all" has more than 10 names and has shown ten of them
C13_Witness ==
    /\ Assembled
    /\ ~showAll
    /\ Cardinality(Deduplicated) > 10
    /\ ListedNames = Deduplicated
    /\ reply.kind = "box"

-----------------------------------------------------------------------------
(* C14: how a query ends *)

\* C14: a query that has ended has given one reply, a box or the help page, and
\* has not ended in an exception, whether in the token loop, in the walk of the
\* move filter or in the assembly
C14_EndsWithPlainMessage == pc = "done" => reply.kind \in {"box", "parse"}

-----------------------------------------------------------------------------
(* C15, C16: the type filter *)

TypeTokens ==
    {"fire type", "flying type", "water type", "!flying type", "!water type", "dark type",
     "all", "fe"}

InitTypes == InitQuery(TypeTokens, MaxTargets, {FALSE})

SpecTypes == InitTypes /\ [][Next]_vars

\* the filters have run
Filtered == pc = "assemble" \/ Assembled

\* the types of the species, and the types the query gave polarity b
Slots(mon) == {Pokedex[mon].types[n] : n \in 1..Len(Pokedex[mon].types)}
TypesOf(b) == {t \in DOMAIN searches["types"] : searches["types"][t] = b}

\* the rule for fewer than two required types
OneTypeRule(mon) ==
    /\ Slots(mon) \cap TypesOf(FALSE) = {}
    /\ TypesOf(TRUE) # {} => Slots(mon) \cap TypesOf(TRUE) # {}

\* the rule for two required types
TwoTypeRule(mon) == Len(Pokedex[mon].types) = 2 /\ Slots(mon) = TypesOf(TRUE)

\* C15: with fewer than two types of polarity true, no species is left that has
\* a type of polarity false or, if a type has polarity true, has no type of
\* polarity true; when the types are the only category, every admissible species
\* without such a fault is left, one with a single type included
C15_FewerThanTwoTypes ==
    (Filtered /\ "types" \in DOMAIN searches /\ Cardinality(TypesOf(TRUE)) < 2) =>
        /\ \A mon \in dex : OneTypeRule(mon)
        /\ DOMAIN searches = {"types"} =>
              \A mon \in BaseScan(Locals) : OneTypeRule(mon) => mon \in dex

\* "fire type, !water type" has left species, among them one of a single type,
\* and has removed an admissible species
C15_Witness ==
    /\ Assembled
    /\ DOMAIN searches = {"types"}
    /\ TypesOf(TRUE) = {"Fire"}
    /\ TypesOf(FALSE) = {"Water"}
    /\ \E mon \in dex : Len(Pokedex[mon].types) = 1
    /\ BaseScan(Locals) \ dex # {}

\* C16: with exactly two types of polarity true, every species left has two type
\* slots that are the two required types, in either order; when the types are
\* the only category, every admissible species with these two types is left
C16_ExactlyTwoTypes ==
    (Filtered /\ "types" \in DOMAIN searches /\ Cardinality(TypesOf(TRUE)) = 2) =>
        /\ \A mon \in dex : TwoTypeRule(mon)
        /\ DOMAIN searches = {"types"} =>
              \A mon \in BaseScan(Locals) : TwoTypeRule(mon) => mon \in dex

\* two required types have left a species and removed an admissible species
\* that has one of the two as its only type
C16_Witness ==
    /\ Assembled
    /\ DOMAIN searches = {"types"}
    /\ Cardinality(TypesOf(TRUE)) = 2
    /\ dex # {}
    /\ \E mon \in BaseScan(Locals) \ dex :
          Len(Pokedex[mon].types) = 1 /\ Slots(mon) \subseteq TypesOf(TRUE)

-----------------------------------------------------------------------------
(* C17, C20: the category filters together, and the list filters *)

FilterTokens == {"ou", "!uu", "red", "!red", "1", "!4", "fire type", "rest", "blaze"}

InitFilters == InitQuery(FilterTokens, MaxTargets, {FALSE})

SpecFilters == InitFilters /\ [][Next]_vars

\* the species the filter of category cat leaves of the admissible ones, taken alone
Alone(cat) == FilterLoop(Locals, <<cat>>, BaseScan(Locals)).ids

\* the orders the categories of the query can be applied in
Orders ==
    {order \in [1..Cardinality(DOMAIN searches) -> DOMAIN searches] :
        \A a, b \in DOMAIN order : a # b => order[a] # order[b]}

\* C17: after the filters of a query that gets to the assembly, dex holds the
\* admissible species that the filter of every category of the query leaves when
\* it is taken alone, and the filters applied in any other order leave the same
\* species
C17_IntersectionInAnyOrder ==
    Filtered =>
        /\ \E alone \in {[cat \in DOMAIN searches |-> Alone(cat)]} :
              dex = {mon \in BaseScan(Locals) : \A cat \in DOMAIN searches : mon \in alone[cat]}
        /\ \A order \in Orders :
              FilterLoop(Locals, order, BaseScan(Locals)) = [ids |-> dex, reply |-> NoReply]

\* a query of three categories has left a species, and each of the three alone
\* leaves a species the query has removed
C17_Witness ==
    /\ Assembled
    /\ Cardinality(DOMAIN searches) = 3
    /\ dex # {}
    /\ \A cat \in DOMAIN searches : Alone(cat) \ dex # {}

\* the value a list filter reads of the species, as the key of the category
ValueOf(cat, mon) ==
    IF cat = "gen" THEN NatToString[Pokedex[mon].gen] ELSE toLowerCase[Pokedex[mon][cat]]

\* the values the category holds with polarity b
ValuesOf(cat, b) == {v \in DOMAIN searches[cat] : searches[cat][v] = b}

\* the rule of the white and the black list
ListRule(cat, mon) ==
    /\ ValueOf(cat, mon) \notin ValuesOf(cat, FALSE)
    /\ ValuesOf(cat, TRUE) # {} => ValueOf(cat, mon) \in ValuesOf(cat, TRUE)

\* the categories of the query with a list filter, tier only when lc is no value of it
ListCategories ==
    {cat \in DOMAIN searches \cap {"gen", "color", "tier"} :
        cat = "tier" => "lc" \notin DOMAIN searches[cat]}

\* C20: for gen, color and tier without lc, no species is left whose value has
\* polarity false or, when the category holds a value of polarity true, has not
\* polarity true; when the category is the only one of the query, every
\* admissible species without such a fault is left
C20_WhiteAndBlackList ==
    Filtered =>
        \A cat \in ListCategories :
            /\ \A mon \in dex : ListRule(cat, mon)
            /\ DOMAIN searches = {cat} =>
                  \A mon \in BaseScan(Locals) : ListRule(cat, mon) => mon \in dex

\* the query "ou" has left the species of tier OU and removed others
C20_Witness ==
    /\ Assembled
    /\ DOMAIN searches = {"tier"}
    /\ ValuesOf("tier", TRUE) = {"ou"}
    /\ ValuesOf("tier", FALSE) = {}
    /\ dex # {}
    /\ BaseScan(Locals) \ dex # {}

\* a query that excludes a generation has removed its species and left others
C20_WitnessBlacklist ==
    /\ Assembled
    /\ DOMAIN searches = {"gen"}
    /\ ValuesOf("gen", TRUE) = {}
    /\ ValuesOf("gen", FALSE) = {"4"}
    /\ dex # {}
    /\ BaseScan(Locals) \ dex # {}

-----------------------------------------------------------------------------
(* C18: the flags mega and fe *)

FlagTokens == {"mega", "!mega", "fe", "!fe", "nfe", "!nfe", "all", "fire type", "cap"}

InitFlags == InitQuery(FlagTokens, MaxTargets, {FALSE})

SpecFlags == InitFlags /\ [][Next]_vars

\* a token of the query is one of words, negated or not
Asked(words, negated) ==
    \E n \in 1..Len(targets) :
        Stripped(targets[n]) \in words /\ IsNotSearch(targets[n]) = negated

\* the query asks for (b) or against (~b) Mega Evolutions, fully evolved species
AsksMega(b) == Asked({"mega", "megas"}, ~b)
AsksFE(b) == Asked({"fe", "fullyevolved"}, ~b) \/ Asked({"nfe", "notfullyevolved"}, b)

\* what the tokens of the query ask of the species
MegaAsked(template) ==
    (AsksMega(TRUE) => template.isMega) /\ (AsksMega(FALSE) => ~template.isMega)
FEAsked(template) ==
    (AsksFE(TRUE) => Len(template.evos) = 0) /\ (AsksFE(FALSE) => Len(template.evos) > 0)

\* C18: the base scan of a query that passed the token loop leaves the species of
\* an admissible tier that are what the tokens mega and fe ask (nfe asks what !fe
\* asks, !nfe what fe asks), so none is removed for a flag no token sets; and
\* every name a query lists is of such a species
C18_FlagsKeepWhatIsAsked ==
    /\ pc = "filter" =>
          dex = {mon \in DOMAIN Pokedex :
                    /\ Admissible(Locals, Pokedex[mon])
                    /\ MegaAsked(Pokedex[mon])
                    /\ FEAsked(Pokedex[mon])}
    /\ Assembled =>
          \A mon \in dex :
              Pokedex[mon].species \in ListedNames =>
                  MegaAsked(Pokedex[mon]) /\ FEAsked(Pokedex[mon])

\* a query with the token !nfe and no token for mega has kept a Mega Evolution
\* and a species that is none, and has listed names
C18_Witness ==
    /\ Assembled
    /\ \E n \in 1..Len(targets) : targets[n] = "!nfe"
    /\ megaSearch = "null"
    /\ \E a, b \in dex : Pokedex[a].isMega /\ ~Pokedex[b].isMega
    /\ results # <<>>

\* a query with the token nfe has listed a species that evolves
C18_WitnessNFE ==
    /\ Assembled
    /\ \E n \in 1..Len(targets) : targets[n] = "nfe"
    /\ results # <<>>

-----------------------------------------------------------------------------
(* C19: the token no category knows *)

UnknownTokens == {"foo", "foo type", "!bar type", " A<B ", "!Foo", "fire type", "all", "rest"}

InitUnknown == InitQuery(UnknownTokens, MaxTargets, {FALSE})

SpecUnknown == InitUnknown /\ [][Next]_vars

\* the token is no ability, tier, colour, generation, flag, move or type
Unclassifiable(raw) ==
    /\ ~getAbility[raw].exists
    /\ Stripped(raw) \notin allTiers \cup allColours
    /\ ~IsGeneration(Stripped(raw))
    /\ Stripped(raw) \notin {"all", "megas", "mega", "fe", "fullyevolved", "nfe", "notfullyevolved"}
    /\ ~getMove[Stripped(raw)].exists
    /\ ~(indexOf[Stripped(raw), " type"] > -1 /\ TypeName(Stripped(raw)) \in TypeChart)

\* the message that names the token as it was given: trimmed, in lower case,
\* without the leading !, and escaped for the box
NamesToken(raw) ==
    "'" \o escapeHTML[Stripped(raw)] \o "' could not be found in any of the search categories."

\* C19: when the token loop meets a token that no category knows, the query
\* ends there with the message that names this token as it was given, also for
\* a token "<word> type" with an unknown word, and lists nothing
C19_NamesTokenAsGiven ==
    (pc \in {"scan", "filter", "assemble", "done"} /\ i \in 1..Len(targets)
        /\ Unclassifiable(targets[i])) =>
        /\ pc = "done"
        /\ reply = Box(NamesToken(targets[i]))
        /\ results = <<>>

-----------------------------------------------------------------------------
(* C21: the tier lc beside another required tier *)

\* the species is LC-legal by the rule of the tier filter: it evolves, has no
\* prevolution and is not on the ban list
LCLegal(mon) ==
    /\ Len(Pokedex[mon].evos) > 0
    /\ Pokedex[mon].prevo = ""
    /\ Pokedex[mon].species \notin LCBanlist

\* the tier category is the only one, and holds lc and one other tier, both required
LCAndOneTier ==
    /\ DOMAIN searches = {"tier"}
    /\ "lc" \in DOMAIN searches["tier"]
    /\ Cardinality(DOMAIN searches["tier"]) = 2
    /\ \A v \in DOMAIN searches["tier"] : searches["tier"][v]

\* C21: with lc and another tier T both required, every admissible species that
\* is LC-legal, and every one stored in T, is left by the tier filter
C21_LCOrRequiredTier ==
    (Filtered /\ LCAndOneTier) =>
        \A mon \in BaseScan(Locals) :
            (LCLegal(mon) \/ toLowerCase[Pokedex[mon].tier] \in DOMAIN searches["tier"] \ {"lc"})
                => mon \in dex

-----------------------------------------------------------------------------
(* C22: learning along the evolutions *)

\* the catalog with a learnset for Rebble, so that Tactite, which holds none,
\* stands between two species that hold one
GapDex == [FullDex EXCEPT !["rebble"].learnset = Learnset({"cut"})]

InitGap ==
    /\ Pokedex = GapDex
    /\ walkStart \in {LearnsetTemplate[mon].id : mon \in MoveFilterIds(DOMAIN Pokedex)}
    /\ walkMove \in DOMAIN Movedex
    /\ prevoTemp = walkStart
    /\ walkSteps = 0
    /\ pc = "walk"
    /\ target = ""
    /\ broadcasting = FALSE
    /\ targets = <<>>
    /\ i = 0
    /\ searches = EmptyMap
    /\ moveKeys = <<>>
    /\ showAll = FALSE
    /\ megaSearch = "null"
    /\ feSearch = "null"
    /\ dex = {}
    /\ results = <<>>
    /\ reply = NoReply

SpecGap == InitGap /\ [][NextWalk]_vars /\ WF_vars(NextWalk)

\* the walk has ended at a link whose learnset says that the move can be learnt
WalkedToMove ==
    /\ pc = "walked"
    /\ getTemplate[prevoTemp].learnset.has
    /\ \/ walkMove \in getTemplate[prevoTemp].learnset.moves
       \/ "sketch" \in getTemplate[prevoTemp].learnset.moves
          /\ walkMove \notin {"chatter", "struggle", "magikarpsrevenge"}

\* the species before walkStart on its chain of prevolutions
Ancestors == {PrevoChain[walkStart][n] : n \in 2..Len(PrevoChain[walkStart])}

\* C22: when the walk for a species with a learnset of its own has ended, and a
\* species its chain of prevolutions passes through can learn the move by the
\* walk, the walk has ended at a link that says the move can be learnt
C22_LearnabilityMonotonic ==
    pc = "walked" =>
        \A P \in Ancestors : CanLearnMove(P, walkMove) => WalkedToMove

-----------------------------------------------------------------------------
(* C23: the forme filter applied twice *)

\* the base species of the candidate with this name
BaseOf(name) == Pokedex[CHOOSE mon \in dex : Pokedex[mon].species = name].baseSpecies

\* what the forme filter leaves of a set of names of candidates
Deduplicate(names) ==
    {name \in names : ~(BaseOf(name) # name /\ BaseOf(name) \in names)}

\* C23: the forme filter applied to the names it has left leaves all of them
C23_DedupIdempotent == Assembled => Deduplicate(ListedNames) = ListedNames

\* a query has listed a forme, whose base species is no candidate, beside
\* other names
C23_Witness ==
    /\ Assembled
    /\ reply.kind = "box"
    /\ Len(results) > 1
    /\ \E mon \in dex :
          Pokedex[mon].species # Pokedex[mon].baseSpecies /\ Pokedex[mon].species \in ListedNames

-----------------------------------------------------------------------------
(* C24: the tokens that are generations *)

GenTokens == {"1", "!4", "6", "0", "7", "-1", "1x", "!4 ever", "red", "all"}

InitGen == InitQuery(GenTokens, MaxTargets, {FALSE})

SpecGen == InitGen /\ [][Next]_vars

\* the integers n with 0 < n < 7, as tokens
GenerationNumbers == {NatToString[n] : n \in 1..6}

\* C24: a token the loop has passed that is no ability, tier or colour is a key
\* of the gen category exactly if the whole token is an integer n with 0 < n < 7,
\* so that every key of the category is such a number, which the generation of
\* a species can equal
C24_GenerationIsWholeInteger ==
    \A n \in 1..Classified :
        (~getAbility[targets[n]].exists /\ Stripped(targets[n]) \notin allTiers \cup allColours) =>
            (Stripped(targets[n]) \in DOMAIN Category(searches, "gen")
                <=> Stripped(targets[n]) \in GenerationNumbers)

-----------------------------------------------------------------------------
(* C25: the priority of the matchers *)

\* what each matcher says of a token, in the order of the priority
MatcherHits(raw) ==
    << getAbility[raw].exists,
       Stripped(raw) \in allTiers,
       Stripped(raw) \in allColours,
       IsGeneration(Stripped(raw)),
       Stripped(raw) = "all",
       Stripped(raw) \in {"megas", "mega"},
       Stripped(raw) \in {"fe", "fullyevolved", "nfe", "notfullyevolved"},
       getMove[Stripped(raw)].exists,
       indexOf[Stripped(raw), " type"] > -1 /\ TypeName(Stripped(raw)) \in TypeChart >>

\* the category map or the flag each matcher writes
MatcherWrites ==
    <<"ability", "tier", "color", "gen", "showAll", "megaSearch", "feSearch", "moves", "types">>

\* what the earliest matcher that knows the token writes: nothing when none knows it
EarliestWrites(raw) ==
    CHOOSE writes \in
        {{MatcherWrites[k] : k \in {k \in 1..9 : hits[k] /\ \A j \in 1..(k - 1) : ~hits[j]}} :
            hits \in {MatcherHits(raw)}} : TRUE

\* the category maps and flags a step changes
Changed ==
    {cat \in Categories : Category(searches', cat) # Category(searches, cat)}
        \cup (IF showAll' # showAll THEN {"showAll"} ELSE {})
        \cup (IF megaSearch' # megaSearch THEN {"megaSearch"} ELSE {})
        \cup (IF feSearch' # feSearch THEN {"feSearch"} ELSE {})

\* the category maps and flags that are set after a step
SetAfter ==
    (DOMAIN searches')
        \cup (IF showAll' THEN {"showAll"} ELSE {})
        \cup (IF megaSearch' # "null" THEN {"megaSearch"} ELSE {})
        \cup (IF feSearch' # "null" THEN {"feSearch"} ELSE {})

-----------------------------------------------------------------------------
(* C26: the conflicts of the flags *)

\* the token is for Mega Evolutions, for fully evolved species
IsMegaToken(raw) == Stripped(raw) \in {"mega", "megas"}
IsFEToken(raw) == Stripped(raw) \in {"fe", "fullyevolved", "nfe", "notfullyevolved"}

\* what the token asks: TRUE for Mega Evolutions or fully evolved species, FALSE
\* against them; nfe asks what !fe asks
AsksFor(raw) ==
    IF Stripped(raw) \in {"nfe", "notfullyevolved"} THEN IsNotSearch(raw) ELSE ~IsNotSearch(raw)

\* a token of this kind before place n asks the opposite of targets[n]
OpposedBefore(IsKind(_), n) ==
    \E m \in 1..(n - 1) : IsKind(targets[m]) /\ AsksFor(targets[m]) # AsksFor(targets[n])

\* C26: the loop ends the query at a mega token exactly with the conflict reply
\* and only when an earlier mega token asked the opposite; for every mega token
\* the loop has passed, the flag holds what that token asks, so that tokens of
\* both polarities never pass, in either order, and a repeated token leaves the
\* flag as it was; likewise for the tokens fe and nfe, where nfe asks what !fe asks
C26_FlagsConflictOnOpposite ==
    /\ (LoopFailed /\ IsMegaToken(targets[i])) =>
          reply = Box(MsgConflictMega) /\ OpposedBefore(IsMegaToken, i)
    /\ (LoopFailed /\ IsFEToken(targets[i])) =>
          reply = Box(MsgConflictFE) /\ OpposedBefore(IsFEToken, i)
    /\ \A n \in 1..Classified :
          /\ IsMegaToken(targets[n]) => megaSearch = FlagOf(AsksFor(targets[n]))
          /\ IsFEToken(targets[n]) => feSearch = FlagOf(AsksFor(targets[n]))

\* the query "fe,!nfe" has passed the loop with the flag set for fully evolved species
C26_Witness ==
    /\ Len(targets) = 2
    /\ targets[1] = "fe"
    /\ targets[2] = "!nfe"
    /\ Classified = 2
    /\ reply = NoReply
    /\ feSearch = "true"

\* the query "nfe,fe" has been refused at its second token
C26_WitnessConflict ==
    /\ LoopFailed
    /\ i = 2
    /\ targets[1] = "nfe"
    /\ targets[2] = "fe"
    /\ reply = Box(MsgConflictFE)

-----------------------------------------------------------------------------
(* C27: the first error ends the query before the scan *)

\* the replies for a token no category knows, for a conflict, for a cap, for
\* `all` in a broadcast and for `all` alone
EarlyErrors ==
    {MsgNotFound(target), MsgOneAbility, MsgFourMoves, MsgTwoTypes, MsgConflictAbility,
     MsgConflictTier, MsgConflictColor, MsgConflictGen, MsgConflictMega, MsgConflictFE,
     MsgConflictMove, MsgConflictType, MsgAllBroadcast, MsgNoParameters}

\* C27: the loop passes no token that no category knows and, in a broadcast, no
\* `all`; when it ends the query at a token, the tokens before it were passed
\* and the reply is the error that this token gives after them, whatever tokens
\* follow; and a query that ends with one of these errors or with the reply for
\* `all` alone has put no species into dex and listed none
C27_FirstErrorBeforeScan ==
    /\ \A n \in 1..Classified :
          ~Unclassifiable(targets[n]) /\ ~(broadcasting /\ IsAll(targets[n]))
    /\ LoopFailed =>
          /\ reply.kind = "box"
          /\ reply.text \in EarlyErrors
          /\ reply = ClassifyFrom(StartLocals, SubSeq(targets, 1, i), 1, broadcasting).reply
    /\ (pc = "done" /\ reply.kind = "box" /\ reply.text \in EarlyErrors) =>
          dex = {} /\ results = <<>>

\* a query has been refused at its second token, with a token left unread and
\* nothing scanned
C27_Witness ==
    /\ LoopFailed
    /\ i = 2
    /\ Len(targets) = 3
    /\ reply.text \in EarlyErrors
    /\ dex = {}

-----------------------------------------------------------------------------
(* C28: the catalog after a query *)

\* C28: in every state of a query, also after its end, the Pokedex is the
\* catalog the query started on, with every entry and learnset as it was; what
\* the scan, the filters and the assembly take away is taken from dex and
\* results only
C28_CatalogUnchanged == Pokedex = FullDex

\* a query has ended after its filters took species out of dex and the forme
\* filter dropped a forme
C28_Witness ==
    /\ Assembled
    /\ BaseScan(Locals) \ dex # {}
    /\ \E mon \in dex : FormeOfCandidate(mon)
    /\ reply.kind = "box"

\* a query has ended in the token loop
C28_WitnessFailed == LoopFailed /\ reply.kind = "box"

-----------------------------------------------------------------------------
(* C29: the reply for an unknown move *)

\* the keys of the move category
MoveKeysOfQuery == DOMAIN Category(searches, "moves")

-----------------------------------------------------------------------------
(* C30: the cap is tested before the conflict *)

\* the token at place n asks for a value of category cat, with polarity true
AsksValueOf(n, cat) == EarliestWrites(targets[n]) = {cat} /\ ~IsNotSearch(targets[n])

\* the value the token at place n asks for is held by category cat with polarity true
HeldAlready(n, cat) ==
    \E e \in {TokenSearch(targets[n])} :
        \A key \in DOMAIN e[cat] : Truthy(Category(searches, cat), key)

C30_WitnessRepeated ==
    /\ targets = <<"fire type", "fire type">>
    /\ Classified = 2
    /\ reply = NoReply
    /\ TrueCount("types") = 1

====
